---- MODULE Spec2Model ----
(***************************************************************************)
(* The client-side session synchronisation engine of the Company Research  *)
(* Assistant: the App component of src/frontend/src/App.jsx (React state,  *)
(* refs, the session effect, the resource calls and the WebSocket reducer  *)
(* handleWsMessage), and the reconnecting connection manager connectWs of  *)
(* the two earlier versions of the component (src/unnamed/part_001 and     *)
(* part_002).                                                              *)
(*                                                                         *)
(* Strings are sequences of tokens, so concatenation is \o.  A React       *)
(* event handler or promise continuation runs to completion: it is one     *)
(* action.  A state update that changes sessionId is committed first and   *)
(* the passive session effect (cleanup, then body) runs as a later step.   *)
(***************************************************************************)
EXTENDS Naturals, Sequences, FiniteSets, Bags, TLC

(* ------------------------------ bounds ------------------------------- *)
\* Spec: several sessions, the session effect, sockets and resource calls.
MaxSessions == 2
MaxMsgs == 2
MaxBuf == 1
MaxSockets == 2
MaxCalls == 2
MaxReqs == 1
\* SpecStream: one session, the stream of one or two generations.
StreamMaxMsgs == 4
StreamMaxBuf == 2
StreamMaxReqs == 2
StreamMaxCalls == 1
\* SpecEdit: one session, the document and the edit transaction.
EditMaxMsgs == 2
EditMaxReqs == 2
EditMaxCalls == 1

(* ------------------------------ values ------------------------------- *)
\* JS null for a session id (`!sessionId`) and for a socket reference.
NoSession == 0
NoSocket == 0
NoRecognition == 0
\* JS null for an object-valued state (plan, progress): an option.
None == <<>>
Some(x) == <<x>>

Deltas == {<<"a">>, <<"Starting research on">>}
Inputs == {<<>>, <<" ">>, <<"q">>}
Percents == {40, 80}
PlanKeys == {"company_name", "overview", "leadership"}
Sections == PlanKeys \ {"company_name"}
Vals == {"v1", "v2"}
FullPlans == {[k \in PlanKeys |-> v] : v \in Vals}
Outcomes == {"ok", "notok", "throw"}

VARIABLES
  sessionId, sessions, messages, input, isLoading, progress, plan, showPlan,
  editingSection, editInput, isEditLoading,
  wsRef, currentResponseRef,
  effSid, effWs,
  socks, calls,
  srvSessions, srvNext,
  timers,
  last,
  isListening, recognitionRef, recs

uiVars == <<messages, input, isLoading, progress, plan, showPlan,
            editingSection, editInput, isEditLoading, currentResponseRef>>
vars == <<sessionId, sessions, messages, input, isLoading, progress, plan,
          showPlan, editingSection, editInput, isEditLoading, wsRef,
          currentResponseRef, effSid, effWs, socks, calls, srvSessions,
          srvNext, timers, last, isListening, recognitionRef, recs>>
voiceVars == <<isListening, recognitionRef, recs>>
\* The variables other than those of voice capture.
vars_app == <<sessionId, sessions, messages, input, isLoading, progress, plan,
              showPlan, editingSection, editInput, isEditLoading, wsRef,
              currentResponseRef, effSid, effWs, socks, calls, srvSessions,
              srvNext, timers>>

(* ------------------------------ strings ------------------------------ *)
RECURSIVE TrimLeft(_)
TrimLeft(s) == IF s # <<>> /\ Head(s) = " " THEN TrimLeft(Tail(s)) ELSE s

RECURSIVE TrimRight(_)
TrimRight(s) ==
  IF s # <<>> /\ s[Len(s)] = " " THEN TrimRight(SubSeq(s, 1, Len(s) - 1)) ELSE s

\* Variant of Trim that removes nothing.
TrimNothing(s) == s

\* String.prototype.trim
Trim(s) == TrimRight(TrimLeft(s))

\* data.content.includes("Starting research on")
IncludesStarting(s) == \E i \in 1..Len(s) : s[i] = "Starting research on"

RECURSIVE Filter(_, _)
\* Array.prototype.filter(s => s.session_id !== id)
Filter(seq, id) ==
  IF seq = <<>> THEN <<>>
  ELSE IF Head(seq) = id THEN Filter(Tail(seq), id)
       ELSE <<Head(seq)>> \o Filter(Tail(seq), id)

Msg(r, c) == [role |-> r, content |-> c]

(* ------------------------------ frames ------------------------------- *)
Frame(t, c, p, m, pl, s, u, fp) ==
  [type |-> t, content |-> c, progress |-> p, message |-> m, plan |-> pl,
   section |-> s, updated_content |-> u, full_plan |-> fp]

MessageFrames == {Frame("message", d, 0, "", None, "", "", None) : d \in Deltas}
StatusFrames ==
  {Frame("status", <<>>, p, "Searching news", None, "", "", None) : p \in Percents}
ConflictsFrames == {Frame("conflicts", <<>>, 0, "", None, "", "", None)}
PlanCompleteFrames ==
  {Frame("plan_complete", <<>>, 0, "", Some(d), "", "", None) : d \in FullPlans}
SectionUpdatedFrames(s) ==
  {Frame("section_updated", <<>>, 0, "", None, s, u, fp) :
     u \in Vals, fp \in {None} \cup {Some(d) : d \in FullPlans}}
DoneFrames == {Frame("done", <<>>, 0, "", None, "", "", None)}
ErrorFrames == {Frame("error", <<>>, 0, "Something went wrong", None, "", "", None)}

(* ------------------------- resource calls ---------------------------- *)
\* An in-flight resource call: the request is out, its continuation has not
\* run.  cSid and cSessions are the values of sessionId and sessions in the
\* closure of the render that created the calling function.
Call(k, s, cs, cl) == [kind |-> k, sid |-> s, cSid |-> cs, cSessions |-> cl]

Spawn(bag, c) == bag (+) SetToBag({c})
Finish(bag, c) == bag (-) SetToBag({c})

\* What GET /session/{id}/messages may return for session s.
Histories(s) == {<<>>, <<Msg("assistant", <<ToString(s)>>)>>}

(* --------------------------- the reducer ----------------------------- *)
\* Variant of LastIsAssistant that does not read the role.
LastIsAny(msgs) == Len(msgs) > 0

LastIsAssistant(msgs) == Len(msgs) > 0 /\ msgs[Len(msgs)].role = "assistant"

\* case 'message': the updater of setMessages, with currentResponseRef.current
\* already extended to buf.
AccumulateMessage(prev, buf, data) ==
  IF LastIsAssistant(prev)
  THEN [prev EXCEPT ![Len(prev)].content = buf]
  ELSE Append(prev, Msg("assistant", data.content))

\* Variant of MergeSection that writes the content into every key.
MergeSectionOverwriteAll(prev, section, content) ==
  LET old == IF prev = None THEN <<>> ELSE prev[1]
      keys == (IF prev = None THEN {} ELSE DOMAIN old) \cup {section}
  IN  Some([k \in keys |-> content])

\* {...prev, [section]: content}; spreading null gives no keys.
MergeSection(prev, section, content) ==
  LET old == IF prev = None THEN <<>> ELSE prev[1]
      keys == (IF prev = None THEN {} ELSE DOMAIN old) \cup {section}
  IN  Some([k \in keys |-> IF k = section THEN content ELSE old[k]])

\* Variant of SectionUpdatedPlan that never reads full_plan.
SectionUpdatedPlanMergeOnly(prev, data) ==
  MergeSection(prev, data.section, data.updated_content)

\* case 'section_updated': the new value of plan.
SectionUpdatedPlan(prev, data) ==
  IF data.full_plan # None
  THEN data.full_plan
  ELSE MergeSection(prev, data.section, data.updated_content)

\* Variant of SectionUpdatedMessage with the role of a streamed reply.
SectionUpdatedMessageAsAssistant(data) ==
  Msg("assistant", <<"Section ", data.section, " updated successfully.">>)

SectionUpdatedMessage(data) ==
  Msg("system", <<"Section ", data.section, " updated successfully.">>)

\* Variant of DoneProgress that keeps the progress.
DoneProgressKept(prev) == prev

\* Variant of DoneBuffer that keeps the accumulation.
DoneBufferKept(prev) == prev

\* case 'done': the new values of progress and of currentResponseRef.current.
DoneProgress(prev) == None
DoneBuffer(prev) == <<>>

\* case 'error': the new value of progress (the case does not set it).
ErrorProgress(prev) == prev

NextMessages(data) ==
  CASE data.type = "message" ->
         AccumulateMessage(messages, currentResponseRef \o data.content, data)
    [] data.type = "conflicts" ->
         Append(messages, Msg("system", <<"Conflicts found">>))
    [] data.type = "plan_complete" ->
         Append(messages, Msg("system", <<"Plan generated.">>))
    [] data.type = "section_updated" ->
         Append(messages, SectionUpdatedMessage(data))
    [] data.type = "error" ->
         Append(messages, Msg("error", <<data.message>>))
    [] OTHER -> messages

NextBuffer(data) ==
  CASE data.type = "message" -> currentResponseRef \o data.content
    [] data.type = "done" -> DoneBuffer(currentResponseRef)
    [] OTHER -> currentResponseRef

\* Variant of NextProgress that drops the percentage of a status frame.
NextProgressNoPercent(data) ==
  CASE data.type = "status" -> Some([percent |-> 0, message |-> data.message])
    [] data.type = "done" -> DoneProgress(progress)
    [] data.type = "error" -> ErrorProgress(progress)
    [] OTHER -> progress

NextProgress(data) ==
  CASE data.type = "status" ->
         Some([percent |-> data.progress, message |-> data.message])
    [] data.type = "done" -> DoneProgress(progress)
    [] data.type = "error" -> ErrorProgress(progress)
    [] OTHER -> progress

\* Variant of NextPlan that applies section_updated only while an edit is
\* submitting.
NextPlanWhileSubmitting(data) ==
  CASE data.type = "plan_complete" -> data.plan
    [] data.type = "section_updated" /\ isEditLoading ->
         SectionUpdatedPlan(plan, data)
    [] OTHER -> plan

NextPlan(data) ==
  CASE data.type = "plan_complete" -> data.plan
    [] data.type = "section_updated" -> SectionUpdatedPlan(plan, data)
    [] OTHER -> plan

\* Variant of RefreshesSessions without the refresh of plan_complete.
RefreshesSessionsOnStart(data) ==
  data.type = "message" /\ IncludesStarting(data.content)

\* fetchSessions() as called from handleWsMessage: the handler is memoized with
\* no dependencies, so it holds the fetchSessions of the first render, whose
\* sessionId is the initial null.
RefreshesSessions(data) ==
  \/ data.type = "plan_complete"
  \/ data.type = "message" /\ IncludesStarting(data.content)

handleWsMessage(data) ==
  /\ messages' = NextMessages(data)
  /\ currentResponseRef' = NextBuffer(data)
  /\ progress' = NextProgress(data)
  /\ plan' = NextPlan(data)
  /\ showPlan' = IF data.type = "plan_complete" THEN TRUE ELSE showPlan
  /\ isLoading' = IF data.type \in {"done", "error"} THEN FALSE ELSE isLoading
  /\ isEditLoading' =
       IF data.type \in {"section_updated", "done", "error"} THEN FALSE
       ELSE isEditLoading
  /\ editingSection' =
       IF data.type \in {"section_updated", "error"} THEN "" ELSE editingSection
  /\ calls' = IF RefreshesSessions(data)
              THEN Spawn(calls, Call("list", NoSession, NoSession, <<>>))
              ELSE calls
  /\ UNCHANGED <<sessionId, sessions, input, editInput, wsRef, effSid, effWs,
                 srvSessions, srvNext, timers>>

(* ----------------------------- sockets ------------------------------- *)
\* A WebSocket: the session of its URL, its readyState, and the requests the
\* backend has received on it and not yet finished.
Sock(s) == [sid |-> s, state |-> "connecting", reqs |-> <<>>]
Req(t, s, x) == [type |-> t, section |-> s, text |-> x]
Live(st) == st \in {"connecting", "open"}

\* ws.close(): CONNECTING and OPEN become CLOSING, otherwise nothing happens.
Close(ss, i) ==
  IF i # NoSocket /\ Live(ss[i].state)
  THEN [ss EXCEPT ![i].state = "closing", ![i].reqs = <<>>]
  ELSE ss

\* ws.send(frame) on socket i: delivered when OPEN, silently discarded when
\* CLOSING or CLOSED (when CONNECTING it throws, see SendThrows).
Send(ss, i, r) ==
  IF ss[i].state = "open" THEN [ss EXCEPT ![i].reqs = Append(@, r)] ELSE ss
SendThrows(ss, i) == ss[i].state = "connecting"

SocketOpen(i) ==
  /\ socks[i].state = "connecting"
  /\ socks' = [socks EXCEPT ![i].state = "open"]
  /\ UNCHANGED <<sessionId, sessions, messages, input, isLoading, progress,
                 plan, showPlan, editingSection, editInput, isEditLoading,
                 wsRef, currentResponseRef, effSid, effWs, calls, srvSessions,
                 srvNext, timers>>

\* The close handshake of a closed socket completes.
SocketClosed(i) ==
  /\ socks[i].state = "closing"
  /\ socks' = [socks EXCEPT ![i].state = "closed"]
  /\ UNCHANGED <<sessionId, sessions, messages, input, isLoading, progress,
                 plan, showPlan, editingSection, editInput, isEditLoading,
                 wsRef, currentResponseRef, effSid, effWs, calls, srvSessions,
                 srvNext, timers>>

\* The connection fails or drops; ws.onclose only logs.
SocketDrop(i) ==
  /\ Live(socks[i].state)
  /\ socks' = [socks EXCEPT ![i].state = "closed", ![i].reqs = <<>>]
  /\ UNCHANGED <<sessionId, sessions, messages, input, isLoading, progress,
                 plan, showPlan, editingSection, editInput, isEditLoading,
                 wsRef, currentResponseRef, effSid, effWs, calls, srvSessions,
                 srvNext, timers>>

(* ----------------------------- backend ------------------------------- *)
\* The frames the backend may push while it works on request r, and whether
\* a frame ends the request.
BackendFrames(r) ==
  IF r.type = "message"
  THEN MessageFrames \cup StatusFrames \cup ConflictsFrames
         \cup PlanCompleteFrames \cup DoneFrames \cup ErrorFrames
  ELSE SectionUpdatedFrames(r.section) \cup ErrorFrames
EndsRequest(data) == data.type \in {"done", "error", "section_updated"}

\* ws.onmessage of socket i: the frame goes to handleWsMessage whatever the
\* active session is.
OnMessage(i, data) ==
  /\ socks[i].state = "open"
  /\ socks[i].reqs # <<>>
  /\ data \in BackendFrames(Head(socks[i].reqs))
  /\ handleWsMessage(data)
  /\ socks' = IF EndsRequest(data)
              THEN [socks EXCEPT ![i].reqs = Tail(@)]
              ELSE socks

(* ------------------------- the session effect ------------------------ *)
\* useEffect(..., [sessionId]): the cleanup of the previous run (ws.close()),
\* then the body: the synchronous part of loadSessionData, the first fetch,
\* and the new WebSocket.
RunSessionEffect(sid) ==
  /\ effSid' = sid
  /\ IF sid = NoSession
     THEN /\ socks' = Close(socks, effWs)
          /\ effWs' = NoSocket
          /\ UNCHANGED <<isLoading, plan, showPlan, calls, wsRef>>
     ELSE /\ isLoading' = FALSE
          /\ plan' = None
          /\ showPlan' = FALSE
          /\ calls' = Spawn(calls, Call("history", sid, sid, <<>>))
          /\ socks' = Append(Close(socks, effWs), Sock(sid))
          /\ wsRef' = Len(socks) + 1
          /\ effWs' = Len(socks) + 1
  /\ UNCHANGED <<sessions, messages, input, progress, editingSection,
                 editInput, isEditLoading, currentResponseRef, srvSessions,
                 srvNext, timers>>

\* The effect as a passive effect of a render that a promise continuation
\* caused: it runs in a later task than the commit of the new sessionId.
SessionEffect ==
  /\ effSid # sessionId
  /\ RunSessionEffect(sessionId)
  /\ UNCHANGED sessionId

\* A user event is dispatched after pending passive effects have run.
Settled == effSid = sessionId

(* ---------------------------- user actions --------------------------- *)
\* <textarea disabled={isLoading}> and the send button.
InputEnabled == ~isLoading
\* {showPlan && plan && <div className="plan-panel">}
PlanPanelShown == showPlan /\ plan # None
\* PlanSection's isLoading prop for section k.
SectionLoading(k) == isEditLoading /\ editingSection = k

\* onChange of the composition textarea.
SetInput(v) ==
  /\ Settled
  /\ InputEnabled
  /\ v # input
  /\ input' = v
  /\ UNCHANGED <<sessionId, sessions, messages, isLoading, progress, plan,
                 showPlan, editingSection, editInput, isEditLoading, wsRef,
                 currentResponseRef, effSid, effWs, socks, calls, srvSessions,
                 srvNext, timers>>

sendMessage ==
  /\ Settled
  /\ InputEnabled
  /\ Trim(input) # <<>>
  /\ wsRef # NoSocket
  /\ messages' = Append(messages, Msg("user", input))
  /\ isLoading' = TRUE
  /\ currentResponseRef' = <<>>
  /\ socks' = Send(socks, wsRef, Req("message", "", input))
  /\ input' = IF SendThrows(socks, wsRef) THEN input ELSE <<>>
  /\ UNCHANGED <<sessionId, sessions, progress, plan, showPlan,
                 editingSection, editInput, isEditLoading, wsRef, effSid,
                 effWs, calls, srvSessions, srvNext, timers>>

\* The header button View Plan / Hide Plan, and the panel's close button.
TogglePlan ==
  /\ Settled
  /\ plan # None
  /\ showPlan' = ~showPlan
  /\ UNCHANGED <<sessionId, sessions, messages, input, isLoading, progress,
                 plan, editingSection, editInput, isEditLoading, wsRef,
                 currentResponseRef, effSid, effWs, socks, calls, srvSessions,
                 srvNext, timers>>

\* The Edit button of section k.
handleEditSection(k) ==
  /\ Settled
  /\ PlanPanelShown
  /\ ~SectionLoading(k)
  /\ editingSection' = k
  /\ editInput' = <<>>
  /\ UNCHANGED <<sessionId, sessions, messages, input, isLoading, progress,
                 plan, showPlan, isEditLoading, wsRef, currentResponseRef,
                 effSid, effWs, socks, calls, srvSessions, srvNext, timers>>

\* The form of the section being edited is usable.
EditFormEnabled ==
  /\ PlanPanelShown
  /\ editingSection # ""
  /\ ~SectionLoading(editingSection)

\* onChange of the edit textarea.
SetEditInput(v) ==
  /\ Settled
  /\ EditFormEnabled
  /\ v # editInput
  /\ editInput' = v
  /\ UNCHANGED <<sessionId, sessions, messages, input, isLoading, progress,
                 plan, showPlan, editingSection, isEditLoading, wsRef,
                 currentResponseRef, effSid, effWs, socks, calls, srvSessions,
                 srvNext, timers>>

\* The Cancel button of the edit form.
CancelEdit ==
  /\ Settled
  /\ EditFormEnabled
  /\ editingSection' = ""
  /\ UNCHANGED <<sessionId, sessions, messages, input, isLoading, progress,
                 plan, showPlan, editInput, isEditLoading, wsRef,
                 currentResponseRef, effSid, effWs, socks, calls, srvSessions,
                 srvNext, timers>>

\* The Update button of the edit form.
submitEdit ==
  /\ Settled
  /\ EditFormEnabled
  /\ Trim(editInput) # <<>>
  /\ wsRef # NoSocket
  /\ isEditLoading' = TRUE
  /\ socks' = Send(socks, wsRef, Req("edit_section", editingSection, editInput))
  /\ editInput' = IF SendThrows(socks, wsRef) THEN editInput ELSE <<>>
  /\ UNCHANGED <<sessionId, sessions, messages, input, isLoading, progress,
                 plan, showPlan, editingSection, wsRef, currentResponseRef,
                 effSid, effWs, calls, srvSessions, srvNext, timers>>

InList(seq, x) == \E i \in 1..Len(seq) : seq[i] = x

\* onClick of a session item.  The render of a click is synchronous and its
\* passive effects are flushed with it.
ClickSession(s) ==
  /\ Settled
  /\ InList(sessions, s)
  /\ s # sessionId
  /\ sessionId' = s
  /\ RunSessionEffect(s)

\* createNewSession up to its first await, with closure session cs.
createNewSession(cs) ==
  calls' = Spawn(calls, Call("create", NoSession, cs, <<>>))

\* The + New Session button.
ClickNewSession ==
  /\ Settled
  /\ createNewSession(sessionId)
  /\ UNCHANGED <<sessionId, sessions, messages, input, isLoading, progress,
                 plan, showPlan, editingSection, editInput, isEditLoading,
                 wsRef, currentResponseRef, effSid, effWs, socks, srvSessions,
                 srvNext, timers>>

\* deleteSession up to its await (the user confirms).
deleteSession(idToDelete) ==
  /\ Settled
  /\ InList(sessions, idToDelete)
  /\ calls' = Spawn(calls, Call("delete", idToDelete, sessionId, sessions))
  /\ UNCHANGED <<sessionId, sessions, messages, input, isLoading, progress,
                 plan, showPlan, editingSection, editInput, isEditLoading,
                 wsRef, currentResponseRef, effSid, effWs, socks, srvSessions,
                 srvNext, timers>>

(* ---------------------- resource call completions -------------------- *)
InFlight(c, k) == BagIn(c, calls) /\ c.kind = k

\* Variant of Succeeded that takes every outcome for a success.
SucceededAlways(o) == TRUE

\* The fetch resolved and res.ok holds: the branch that uses the response.
Succeeded(o) == o = "ok"

\* Variant of FetchSessionsDone that takes the list for empty whenever the
\* closure has no session.
FetchSessionsDoneAlwaysCreates(c, o) ==
  /\ InFlight(c, "list")
  /\ IF Succeeded(o)
     THEN /\ sessions' = srvSessions
          /\ IF c.cSid = NoSession
             THEN /\ calls' = Spawn(Finish(calls, c),
                                    Call("create", NoSession, c.cSid, <<>>))
                  /\ UNCHANGED sessionId
             ELSE /\ calls' = Finish(calls, c)
                  /\ UNCHANGED sessionId
     ELSE /\ calls' = Finish(calls, c)
          /\ UNCHANGED <<sessions, sessionId>>
  /\ UNCHANGED <<messages, input, isLoading, progress, plan, showPlan,
                 editingSection, editInput, isEditLoading, wsRef,
                 currentResponseRef, effSid, effWs, socks, srvSessions,
                 srvNext, timers>>

\* fetchSessions after its await.
FetchSessionsDone(c, o) ==
  /\ InFlight(c, "list")
  /\ IF Succeeded(o)
     THEN /\ sessions' = srvSessions
          /\ IF c.cSid = NoSession /\ Len(srvSessions) > 0
             THEN /\ sessionId' = srvSessions[1]
                  /\ calls' = Finish(calls, c)
             ELSE IF c.cSid = NoSession
             THEN /\ calls' = Spawn(Finish(calls, c),
                                    Call("create", NoSession, c.cSid, <<>>))
                  /\ UNCHANGED sessionId
             ELSE /\ calls' = Finish(calls, c)
                  /\ UNCHANGED sessionId
     ELSE /\ calls' = Finish(calls, c)
          /\ UNCHANGED <<sessions, sessionId>>
  /\ UNCHANGED <<messages, input, isLoading, progress, plan, showPlan,
                 editingSection, editInput, isEditLoading, wsRef,
                 currentResponseRef, effSid, effWs, socks, srvSessions,
                 srvNext, timers>>

\* createNewSession after its await: the backend has made session srvNext.
CreateSessionDone(c, o) ==
  /\ InFlight(c, "create")
  /\ IF Succeeded(o)
     THEN /\ srvSessions' = <<srvNext>> \o srvSessions
          /\ srvNext' = srvNext + 1
          /\ sessionId' = srvNext
          /\ calls' = Spawn(Finish(calls, c),
                            Call("list", NoSession, c.cSid, <<>>))
     ELSE /\ calls' = Finish(calls, c)
          /\ UNCHANGED <<srvSessions, srvNext, sessionId>>
  /\ UNCHANGED <<sessions, messages, input, isLoading, progress, plan,
                 showPlan, editingSection, editInput, isEditLoading, wsRef,
                 currentResponseRef, effSid, effWs, socks, timers>>

\* deleteSession after its await.
DeleteSessionDone(c, o) ==
  /\ InFlight(c, "delete")
  /\ IF Succeeded(o)
     THEN /\ srvSessions' = Filter(srvSessions, c.sid)
          /\ sessions' = Filter(sessions, c.sid)
          /\ IF c.cSid = c.sid
             THEN IF Len(Filter(c.cSessions, c.sid)) > 0
                  THEN /\ sessionId' = Filter(c.cSessions, c.sid)[1]
                       /\ calls' = Finish(calls, c)
                       /\ UNCHANGED <<messages, plan>>
                  ELSE /\ sessionId' = NoSession
                       /\ messages' = <<>>
                       /\ plan' = None
                       /\ calls' = Spawn(Finish(calls, c),
                                         Call("create", NoSession, c.cSid, <<>>))
             ELSE /\ calls' = Finish(calls, c)
                  /\ UNCHANGED <<sessionId, messages, plan>>
     ELSE /\ calls' = Finish(calls, c)
          /\ UNCHANGED <<srvSessions, sessions, sessionId, messages, plan>>
  /\ UNCHANGED <<input, isLoading, progress, showPlan, editingSection,
                 editInput, isEditLoading, wsRef, currentResponseRef, effSid,
                 effWs, socks, srvNext, timers>>

\* loadSessionData after its first await: the history response h.
HistoryDone(c, o, h) ==
  /\ InFlight(c, "history")
  /\ h \in Histories(c.sid)
  /\ messages' = IF Succeeded(o) THEN h ELSE messages
  /\ calls' = IF o = "throw"
              THEN Finish(calls, c)
              ELSE Spawn(Finish(calls, c), Call("plan", c.sid, c.cSid, <<>>))
  /\ UNCHANGED <<sessionId, sessions, input, isLoading, progress, plan,
                 showPlan, editingSection, editInput, isEditLoading, wsRef,
                 currentResponseRef, effSid, effWs, socks, srvSessions,
                 srvNext, timers>>

\* loadSessionData after its second await: the plan response d.
PlanDone(c, o, d) ==
  /\ InFlight(c, "plan")
  /\ plan' = IF Succeeded(o) THEN Some(d) ELSE plan
  /\ calls' = Finish(calls, c)
  /\ UNCHANGED <<sessionId, sessions, messages, input, isLoading, progress,
                 showPlan, editingSection, editInput, isEditLoading, wsRef,
                 currentResponseRef, effSid, effWs, socks, srvSessions,
                 srvNext, timers>>

(* --------------------------- voice capture --------------------------- *)
\* The words the platform recognizes.
Words == {"hi", "yo"}

\* A SpeechRecognition instance made by toggleListening: the platform's
\* state of it, its closure variable finalTranscriptBuffer (buf), the
\* platform's results list, and commits, the indices of the final results
\* whose transcript its onresult has appended to the input, in order, and
\* started, whether its start event has fired.
Rec == [state |-> "starting", buf |-> <<>>, results |-> <<>>, commits |-> <<>>,
        started |-> FALSE]
Result(t, f) == [transcript |-> t, isFinal |-> f]
Capturing(st) == st \in {"starting", "running", "stopping"}

VoiceInit ==
  /\ isListening = FALSE
  /\ recognitionRef = NoRecognition
  /\ recs = <<>>

\* recognition.stop()
Stop(rs, i) ==
  IF rs[i].state \in {"starting", "running"}
  THEN [rs EXCEPT ![i].state = "stopping"]
  ELSE rs

\* The microphone button; throws: recognition.start() throws.
toggleListening(throws) ==
  /\ ~isLoading
  /\ IF isListening
     THEN /\ recs' = IF recognitionRef # NoRecognition
                     THEN Stop(recs, recognitionRef) ELSE recs
          /\ UNCHANGED <<isListening, recognitionRef>>
     ELSE IF throws
     THEN /\ recs' = Append(recs, [Rec EXCEPT !.state = "ended"])
          /\ isListening' = FALSE
          /\ recognitionRef' = NoRecognition
     ELSE /\ recs' = Append(recs, Rec)
          /\ recognitionRef' = Len(recs) + 1
          /\ UNCHANGED isListening
  /\ UNCHANGED vars_app

\* recognition.onstart of instance i.
onstart(i) ==
  /\ recs[i].state = "starting"
  /\ recs' = [recs EXCEPT ![i].state = "running", ![i].buf = <<>>,
                           ![i].started = TRUE]
  /\ isListening' = TRUE
  /\ UNCHANGED <<recognitionRef, vars_app>>

\* The indices from resultIndex on of the final results of res, and the
\* concatenation of their transcripts (newFinalTranscript).
FinalIndices(res, resultIndex) ==
  SelectSeq([j \in 1..(Len(res) + 1 - resultIndex) |-> j + resultIndex - 1],
            LAMBDA j : res[j].isFinal)
NewFinalTranscript(res, resultIndex) ==
  [j \in 1..Len(FinalIndices(res, resultIndex)) |->
     res[FinalIndices(res, resultIndex)[j]].transcript]

\* The setInput updater of onresult.
AppendTranscript(prev, t) ==
  Trim(prev) \o (IF Trim(prev) # <<>> THEN <<" ">> ELSE <<>>) \o Trim(t)

\* recognition.onresult of instance i, with event.results = res and
\* event.resultIndex = resultIndex.
onresult(i, res, resultIndex) ==
  /\ recs[i].state \in {"running", "stopping"}
  /\ resultIndex \in 1..Len(res)
  /\ LET newFinal == NewFinalTranscript(res, resultIndex)
     IN  IF newFinal # <<>> /\ newFinal # recs[i].buf
         THEN /\ recs' = [recs EXCEPT
                   ![i].results = res,
                   ![i].buf = newFinal,
                   ![i].commits = @ \o FinalIndices(res, resultIndex)]
              /\ input' = AppendTranscript(input, newFinal)
         ELSE /\ recs' = [recs EXCEPT ![i].results = res]
              /\ UNCHANGED input
  /\ UNCHANGED <<isListening, recognitionRef, sessionId, sessions, messages,
                 isLoading, progress, plan, showPlan, editingSection,
                 editInput, isEditLoading, wsRef, currentResponseRef, effSid,
                 effWs, socks, calls, srvSessions, srvNext, timers>>

\* Variant of onerror that keeps the reference to the instance.
onerrorKeepsHandle(i) ==
  /\ Capturing(recs[i].state)
  /\ recs' = [recs EXCEPT ![i].state = "failed"]
  /\ isListening' = FALSE
  /\ UNCHANGED <<recognitionRef, vars_app>>

\* recognition.onerror of instance i; the platform then ends the instance.
onerror(i) ==
  /\ Capturing(recs[i].state)
  /\ recs' = [recs EXCEPT ![i].state = "failed"]
  /\ isListening' = FALSE
  /\ recognitionRef' = NoRecognition
  /\ UNCHANGED vars_app

\* recognition.onend of instance i.
onend(i) ==
  /\ recs[i].state \in {"running", "stopping", "failed"}
  /\ recs' = [recs EXCEPT ![i].state = "ended"]
  /\ isListening' = FALSE
  /\ recognitionRef' = NoRecognition
  /\ UNCHANGED vars_app

(* ------------------------- the specifications ------------------------ *)
\* After the first render and the mount effect (fetchSessions is out), with
\* backend sessions srv.
InitWith(srv) ==
  /\ sessionId = NoSession
  /\ sessions = <<>>
  /\ messages = <<>>
  /\ input = <<>>
  /\ isLoading = FALSE
  /\ progress = None
  /\ plan = None
  /\ showPlan = FALSE
  /\ editingSection = ""
  /\ editInput = <<>>
  /\ isEditLoading = FALSE
  /\ wsRef = NoSocket
  /\ currentResponseRef = <<>>
  /\ effSid = NoSession
  /\ effWs = NoSocket
  /\ socks = <<>>
  /\ calls = SetToBag({Call("list", NoSession, NoSession, <<>>)})
  /\ srvSessions = srv
  /\ srvNext = Len(srv) + 1
  /\ timers = {}
  /\ last = None
  /\ VoiceInit

\* The bounds of a specification, as a condition on the state a step leads to.
Bounded(maxMsgs, maxBuf, maxSockets, maxCalls, maxReqs, maxSessions) ==
  /\ Len(messages) <= maxMsgs
  /\ Len(currentResponseRef) <= maxBuf
  /\ Len(socks) <= maxSockets
  /\ BagCardinality(calls) <= maxCalls
  /\ \A i \in 1..Len(socks) : Len(socks[i].reqs) <= maxReqs
  /\ srvNext <= maxSessions + 1

\* last is the frame that the step into the current state handed to
\* handleWsMessage (event.data of ws.onmessage), None after any other step.
Handled(data) == last' = Some(data)
NoFrame == last' = None

\* A step that is not a step of voice capture.
NoVoice == UNCHANGED voiceVars

\* The frames of a backend that sends deltas ds, percentages ps, documents
\* docs and section contents us, for the sections ks.
FramesOf(ds, ps, docs, us, ks) ==
  {Frame("message", d, 0, "", None, "", "", None) : d \in ds}
    \cup {Frame("status", <<>>, p, "Searching news", None, "", "", None) : p \in ps}
    \cup ConflictsFrames
    \cup {Frame("plan_complete", <<>>, 0, "", Some(d), "", "", None) : d \in docs}
    \cup {Frame("section_updated", <<>>, 0, "", None, k, u, fp) :
            k \in ks, u \in us, fp \in {None} \cup {Some(d) : d \in docs}}
    \cup DoneFrames \cup ErrorFrames

Doc(v) == [k \in PlanKeys |-> v]

(* Spec: the session controller. *)
SessionIds == 1..MaxSessions
SpecFrames == FramesOf({<<"a">>}, {40}, {Doc("v1")}, {"v2"}, {"overview"})
SpecBounded ==
  Bounded(MaxMsgs, MaxBuf, MaxSockets, MaxCalls, MaxReqs, MaxSessions)

Init == \E srv \in {<<>>, <<1>>} : InitWith(srv)

Next ==
  \/ SetInput(<<"q">>) /\ SpecBounded' /\ NoFrame /\ NoVoice
  \/ sendMessage /\ SpecBounded' /\ NoFrame /\ NoVoice
  \/ TogglePlan /\ SpecBounded' /\ NoFrame /\ NoVoice
  \/ \E s \in SessionIds : ClickSession(s) /\ SpecBounded' /\ NoFrame /\ NoVoice
  \/ ClickNewSession /\ SpecBounded' /\ NoFrame /\ NoVoice
  \/ SessionEffect /\ SpecBounded' /\ NoFrame /\ NoVoice
  \/ \E i \in 1..Len(socks) : SocketOpen(i) /\ SpecBounded' /\ NoFrame /\ NoVoice
  \/ \E i \in 1..Len(socks) : \E data \in SpecFrames :
       OnMessage(i, data) /\ Handled(data) /\ NoVoice /\ SpecBounded'
  \/ \E c \in BagToSet(calls), o \in Outcomes :
       FetchSessionsDone(c, o) /\ SpecBounded' /\ NoFrame /\ NoVoice
  \/ \E c \in BagToSet(calls), o \in Outcomes :
       CreateSessionDone(c, o) /\ SpecBounded' /\ NoFrame /\ NoVoice
  \/ \E c \in BagToSet(calls), o \in Outcomes :
       \E h \in Histories(c.sid) : HistoryDone(c, o, h) /\ SpecBounded' /\ NoFrame /\ NoVoice
  \/ \E c \in BagToSet(calls), o \in Outcomes :
       PlanDone(c, o, Doc("v1")) /\ SpecBounded' /\ NoFrame /\ NoVoice

Spec == Init /\ [][Next]_vars

(* SpecStream: one session; the stream of a generation. *)
StreamFrames ==
  FramesOf(Deltas, Percents, {Doc("v1")}, {"v2"}, {"overview"})
StreamBounded ==
  Bounded(StreamMaxMsgs, StreamMaxBuf, 1, StreamMaxCalls, StreamMaxReqs, 1)

InitStream == InitWith(<<1>>)

NextStream ==
  \/ SetInput(<<"q">>) /\ StreamBounded' /\ NoFrame /\ NoVoice
  \/ sendMessage /\ StreamBounded' /\ NoFrame /\ NoVoice
  \/ TogglePlan /\ StreamBounded' /\ NoFrame /\ NoVoice
  \/ SessionEffect /\ StreamBounded' /\ NoFrame /\ NoVoice
  \/ \E i \in 1..Len(socks) : SocketOpen(i) /\ StreamBounded' /\ NoFrame /\ NoVoice
  \/ \E i \in 1..Len(socks) : SocketDrop(i) /\ StreamBounded' /\ NoFrame /\ NoVoice
  \/ \E i \in 1..Len(socks) : \E data \in StreamFrames :
       OnMessage(i, data) /\ Handled(data) /\ NoVoice /\ StreamBounded'
  \/ \E c \in BagToSet(calls), o \in Outcomes :
       FetchSessionsDone(c, o) /\ StreamBounded' /\ NoFrame /\ NoVoice
  \/ \E c \in BagToSet(calls), o \in Outcomes :
       \E h \in Histories(c.sid) : HistoryDone(c, o, h) /\ StreamBounded' /\ NoFrame /\ NoVoice
  \/ \E c \in BagToSet(calls), o \in Outcomes :
       PlanDone(c, o, Doc("v1")) /\ StreamBounded' /\ NoFrame /\ NoVoice

SpecStream == InitStream /\ [][NextStream]_vars

\* SpecStream where every enabled step (a queued task, timer, event or
\* promise continuation of the event loop) is eventually taken.
SpecStreamFair == SpecStream /\ WF_vars(NextStream)

\* The backend ends the request at the head of an open socket: it sends done,
\* error or section_updated.
EndRequest ==
  \E i \in 1..Len(socks) : \E data \in StreamFrames :
    EndsRequest(data) /\ OnMessage(i, data) /\ Handled(data) /\ NoVoice
      /\ StreamBounded'

\* SpecStreamFair with a backend that ends every request it has received.
SpecStreamBackendEnds == SpecStreamFair /\ WF_vars(EndRequest)

(* SpecEdit: one session; the document and the edit transaction. *)
EditFrames == FramesOf({<<"a">>}, {40}, FullPlans, Vals, Sections)
EditBounded == Bounded(EditMaxMsgs, 1, 1, EditMaxCalls, EditMaxReqs, 1)

NextEdit ==
  \/ SetInput(<<"q">>) /\ EditBounded' /\ NoFrame /\ NoVoice
  \/ sendMessage /\ EditBounded' /\ NoFrame /\ NoVoice
  \/ TogglePlan /\ EditBounded' /\ NoFrame /\ NoVoice
  \/ \E k \in Sections : handleEditSection(k) /\ EditBounded' /\ NoFrame /\ NoVoice
  \/ \E v \in Inputs : SetEditInput(v) /\ EditBounded' /\ NoFrame /\ NoVoice
  \/ CancelEdit /\ EditBounded' /\ NoFrame /\ NoVoice
  \/ submitEdit /\ EditBounded' /\ NoFrame /\ NoVoice
  \/ SessionEffect /\ EditBounded' /\ NoFrame /\ NoVoice
  \/ \E i \in 1..Len(socks) : SocketOpen(i) /\ EditBounded' /\ NoFrame /\ NoVoice
  \/ \E i \in 1..Len(socks) : SocketDrop(i) /\ EditBounded' /\ NoFrame /\ NoVoice
  \/ \E i \in 1..Len(socks) : \E data \in EditFrames :
       OnMessage(i, data) /\ Handled(data) /\ NoVoice /\ EditBounded'
  \/ \E c \in BagToSet(calls), o \in Outcomes :
       FetchSessionsDone(c, o) /\ EditBounded' /\ NoFrame /\ NoVoice
  \/ \E c \in BagToSet(calls), o \in Outcomes :
       \E h \in Histories(c.sid) : HistoryDone(c, o, h) /\ EditBounded' /\ NoFrame /\ NoVoice
  \/ \E c \in BagToSet(calls), o \in Outcomes, d \in FullPlans :
       PlanDone(c, o, d) /\ EditBounded' /\ NoFrame /\ NoVoice

SpecEdit == InitStream /\ [][NextEdit]_vars


(* SpecDelete: creating, selecting and deleting sessions, with a section
   edit under way. *)
DeleteMaxSessions == 2
DeleteMaxMsgs == 1
DeleteMaxSockets == 3
DeleteMaxCalls == 2
DeleteMaxReqs == 1

DeleteBounded ==
  Bounded(DeleteMaxMsgs, 0, DeleteMaxSockets, DeleteMaxCalls, DeleteMaxReqs,
          DeleteMaxSessions)

NextDelete ==
  \/ \E s \in 1..DeleteMaxSessions : deleteSession(s) /\ DeleteBounded' /\ NoFrame /\ NoVoice
  \/ \E s \in 1..DeleteMaxSessions : ClickSession(s) /\ DeleteBounded' /\ NoFrame /\ NoVoice
  \/ ClickNewSession /\ DeleteBounded' /\ NoFrame /\ NoVoice
  \/ SessionEffect /\ DeleteBounded' /\ NoFrame /\ NoVoice
  \/ \E i \in 1..Len(socks) : SocketOpen(i) /\ DeleteBounded' /\ NoFrame /\ NoVoice
  \/ \E i \in 1..Len(socks) : SocketClosed(i) /\ DeleteBounded' /\ NoFrame /\ NoVoice
  \/ TogglePlan /\ DeleteBounded' /\ NoFrame /\ NoVoice
  \/ handleEditSection("overview") /\ DeleteBounded' /\ NoFrame /\ NoVoice
  \/ SetEditInput(<<"q">>) /\ DeleteBounded' /\ NoFrame /\ NoVoice
  \/ submitEdit /\ DeleteBounded' /\ NoFrame /\ NoVoice
  \/ \E i \in 1..Len(socks) : \E data \in SpecFrames :
       OnMessage(i, data) /\ Handled(data) /\ NoVoice /\ DeleteBounded'
  \/ \E c \in BagToSet(calls), o \in Outcomes :
       FetchSessionsDone(c, o) /\ DeleteBounded' /\ NoFrame /\ NoVoice
  \/ \E c \in BagToSet(calls), o \in Outcomes :
       CreateSessionDone(c, o) /\ DeleteBounded' /\ NoFrame /\ NoVoice
  \/ \E c \in BagToSet(calls), o \in Outcomes :
       DeleteSessionDone(c, o) /\ DeleteBounded' /\ NoFrame /\ NoVoice
  \/ \E c \in BagToSet(calls), o \in Outcomes :
       \E h \in Histories(c.sid) : HistoryDone(c, o, h) /\ DeleteBounded' /\ NoFrame /\ NoVoice
  \/ \E c \in BagToSet(calls), o \in Outcomes :
       PlanDone(c, o, Doc("v1")) /\ DeleteBounded' /\ NoFrame /\ NoVoice

SpecDelete == Init /\ [][NextDelete]_vars

(* SpecRedeliver: the edit flow with a backend that may deliver a
   section_updated frame again, or with no edit awaiting it. *)
RedeliverMaxMsgs == 3
RedeliverMaxReqs == 1
RedeliverMaxCalls == 1

\* ws.onmessage of socket i with a section_updated frame that answers no
\* request awaiting on the socket: a retried or duplicate delivery.
OnRedelivery(i, data) ==
  /\ socks[i].state = "open"
  /\ socks[i].reqs = <<>>
  /\ data.type = "section_updated"
  /\ handleWsMessage(data)
  /\ UNCHANGED socks

RedeliverBounded ==
  Bounded(RedeliverMaxMsgs, 0, 1, RedeliverMaxCalls, RedeliverMaxReqs, 1)

NextRedeliver ==
  \/ TogglePlan /\ RedeliverBounded' /\ NoFrame /\ NoVoice
  \/ \E k \in Sections : handleEditSection(k) /\ RedeliverBounded' /\ NoFrame /\ NoVoice
  \/ SetEditInput(<<"q">>) /\ RedeliverBounded' /\ NoFrame /\ NoVoice
  \/ submitEdit /\ RedeliverBounded' /\ NoFrame /\ NoVoice
  \/ SessionEffect /\ RedeliverBounded' /\ NoFrame /\ NoVoice
  \/ \E i \in 1..Len(socks) : SocketOpen(i) /\ RedeliverBounded' /\ NoFrame /\ NoVoice
  \/ \E i \in 1..Len(socks) : \E data \in EditFrames :
       OnMessage(i, data) /\ Handled(data) /\ NoVoice /\ RedeliverBounded'
  \/ \E i \in 1..Len(socks) : \E data \in EditFrames :
       OnRedelivery(i, data) /\ Handled(data) /\ NoVoice /\ RedeliverBounded'
  \/ \E c \in BagToSet(calls), o \in Outcomes :
       FetchSessionsDone(c, o) /\ RedeliverBounded' /\ NoFrame /\ NoVoice
  \/ \E c \in BagToSet(calls), o \in Outcomes :
       \E h \in Histories(c.sid) : HistoryDone(c, o, h) /\ RedeliverBounded' /\ NoFrame /\ NoVoice
  \/ \E c \in BagToSet(calls), o \in Outcomes, d \in FullPlans :
       PlanDone(c, o, d) /\ RedeliverBounded' /\ NoFrame /\ NoVoice

SpecRedeliver == InitStream /\ [][NextRedeliver]_vars

(* SpecRefresh: two sessions exist at startup; the stream of the active
   session and the refreshes of the session list that it starts. *)
RefreshMaxMsgs == 2
RefreshMaxSockets == 2
RefreshMaxCalls == 2
RefreshMaxReqs == 1

RefreshFrames == FramesOf(Deltas, {40}, {Doc("v1")}, {"v2"}, {"overview"})
RefreshBounded ==
  Bounded(RefreshMaxMsgs, 1, RefreshMaxSockets, RefreshMaxCalls,
          RefreshMaxReqs, 2)

InitRefresh == InitWith(<<2, 1>>)

NextRefresh ==
  \/ SetInput(<<"q">>) /\ RefreshBounded' /\ NoFrame /\ NoVoice
  \/ sendMessage /\ RefreshBounded' /\ NoFrame /\ NoVoice
  \/ \E s \in 1..2 : ClickSession(s) /\ RefreshBounded' /\ NoFrame /\ NoVoice
  \/ SessionEffect /\ RefreshBounded' /\ NoFrame /\ NoVoice
  \/ \E i \in 1..Len(socks) : SocketOpen(i) /\ RefreshBounded' /\ NoFrame /\ NoVoice
  \/ \E i \in 1..Len(socks) : \E data \in RefreshFrames :
       OnMessage(i, data) /\ Handled(data) /\ NoVoice /\ RefreshBounded'
  \/ \E c \in BagToSet(calls), o \in Outcomes :
       FetchSessionsDone(c, o) /\ RefreshBounded' /\ NoFrame /\ NoVoice
  \/ \E c \in BagToSet(calls), o \in Outcomes :
       \E h \in Histories(c.sid) : HistoryDone(c, o, h) /\ RefreshBounded' /\ NoFrame /\ NoVoice
  \/ \E c \in BagToSet(calls), o \in Outcomes :
       PlanDone(c, o, Doc("v1")) /\ RefreshBounded' /\ NoFrame /\ NoVoice

SpecRefresh == InitRefresh /\ [][NextRefresh]_vars

(* SpecStartup: the backend has no session at startup and answers every
   list and create call; the user only converses. *)
StartupMaxMsgs == 2
StartupMaxCalls == 2
StartupMaxReqs == 1
StartupMaxSessions == 3

StartupBounded ==
  Bounded(StartupMaxMsgs, 1, 1, StartupMaxCalls, StartupMaxReqs,
          StartupMaxSessions)

InitStartup == InitWith(<<>>)

\* GET /sessions, POST /session answer ok; the session effect runs.
ListAnswers ==
  \E c \in BagToSet(calls) :
    FetchSessionsDone(c, "ok") /\ StartupBounded' /\ NoFrame /\ NoVoice
CreateAnswers ==
  \E c \in BagToSet(calls) :
    CreateSessionDone(c, "ok") /\ StartupBounded' /\ NoFrame /\ NoVoice
EffectRuns == SessionEffect /\ StartupBounded' /\ NoFrame /\ NoVoice

NextStartup ==
  \/ ListAnswers
  \/ CreateAnswers
  \/ EffectRuns
  \/ SetInput(<<"q">>) /\ StartupBounded' /\ NoFrame /\ NoVoice
  \/ sendMessage /\ StartupBounded' /\ NoFrame /\ NoVoice
  \/ \E i \in 1..Len(socks) : SocketOpen(i) /\ StartupBounded' /\ NoFrame /\ NoVoice
  \/ \E i \in 1..Len(socks) : \E data \in SpecFrames :
       OnMessage(i, data) /\ Handled(data) /\ NoVoice /\ StartupBounded'
  \/ \E c \in BagToSet(calls), o \in Outcomes :
       \E h \in Histories(c.sid) : HistoryDone(c, o, h) /\ StartupBounded' /\ NoFrame /\ NoVoice
  \/ \E c \in BagToSet(calls), o \in Outcomes :
       PlanDone(c, o, Doc("v1")) /\ StartupBounded' /\ NoFrame /\ NoVoice

\* Every pending answer arrives and the pending passive effect runs.
SpecStartup ==
  /\ InitStartup
  /\ [][NextStartup]_vars
  /\ WF_vars(ListAnswers)
  /\ WF_vars(CreateAnswers)
  /\ WF_vars(EffectRuns)

(* SpecVoice: voice capture and the composition input. *)
VoiceMaxRecs == 2
VoiceMaxResults == 2
VoiceMaxCommits == 3
VoiceMaxInput == 5

\* The results list of the next result event of an instance whose list is
\* res: the same list again, the list with its last interim result made
\* final, or the list with one more result.
NextResults(res) ==
  {res}
    \cup (IF res = <<>> THEN {}
          ELSE {[res EXCEPT ![Len(res)].isFinal = TRUE]})
    \cup {Append(res, Result(w, f)) : w \in Words, f \in BOOLEAN}

VoiceBounded ==
  /\ Len(recs) <= VoiceMaxRecs
  /\ Len(input) <= VoiceMaxInput
  /\ \A i \in 1..Len(recs) :
       /\ Len(recs[i].results) <= VoiceMaxResults
       /\ Len(recs[i].commits) <= VoiceMaxCommits

NextVoice ==
  \/ \E throws \in BOOLEAN : toggleListening(throws) /\ VoiceBounded' /\ NoFrame
  \/ \E i \in 1..Len(recs) : onstart(i) /\ VoiceBounded' /\ NoFrame
  \/ \E i \in 1..Len(recs) : \E res \in NextResults(recs[i].results) :
       \E resultIndex \in 1..Len(res) :
         onresult(i, res, resultIndex) /\ VoiceBounded' /\ NoFrame
  \/ \E i \in 1..Len(recs) : onerror(i) /\ VoiceBounded' /\ NoFrame
  \/ \E i \in 1..Len(recs) : onend(i) /\ VoiceBounded' /\ NoFrame
  \/ \E v \in {<<>>, <<"q">>} : SetInput(v) /\ NoVoice /\ VoiceBounded' /\ NoFrame

SpecVoice == InitStream /\ [][NextVoice]_vars

(* --------------- the earlier versions with connectWs ----------------- *)
\* Bounds of SpecLegacy.
LegacyMaxSessions == 3
LegacyMaxSockets == 4
LegacyMaxMsgs == 2
LegacyMaxBuf == 1

\* generateSessionId(): an identifier no earlier session has; prev is the
\* newest identifier generated so far.
generateSessionId(prev) == prev + 1

\* connectWs() of the effect that ran for session sid: a new socket, which
\* wsRef.current then refers to.
connectWs(ss, sid) == Append(ss, Sock(sid))

\* The effect on [sessionId]: the cleanup of the previous run closes whatever
\* wsRef.current refers to, then connectWs() runs for the new session.
LegacyRunEffect(sid) ==
  /\ effSid' = sid
  /\ socks' = connectWs(Close(socks, wsRef), sid)
  /\ wsRef' = Len(socks) + 1

\* The effect after the first render.
LegacyMountEffect ==
  /\ effSid # sessionId
  /\ LegacyRunEffect(sessionId)
  /\ UNCHANGED <<sessionId, sessions, messages, input, isLoading, progress,
                 plan, showPlan, editingSection, editInput, isEditLoading,
                 currentResponseRef, effWs, calls, srvSessions, srvNext,
                 timers>>

\* The New Session button.
resetSession ==
  /\ Settled
  /\ sessionId' = generateSessionId(sessionId)
  /\ messages' = <<>>
  /\ plan' = None
  /\ showPlan' = FALSE
  /\ LegacyRunEffect(sessionId')
  /\ UNCHANGED <<sessions, input, isLoading, progress, editingSection,
                 editInput, isEditLoading, currentResponseRef, effWs, calls,
                 srvSessions, srvNext, timers>>

\* ws.onclose of socket i, after close() or after the connection dropped:
\* setTimeout(connectWs, 2000).
LegacyOnClose(i) ==
  /\ socks[i].state # "closed"
  /\ socks' = [socks EXCEPT ![i].state = "closed", ![i].reqs = <<>>]
  /\ timers' = timers \cup {i}
  /\ UNCHANGED <<sessionId, sessions, messages, input, isLoading, progress,
                 plan, showPlan, editingSection, editInput, isEditLoading,
                 wsRef, currentResponseRef, effSid, effWs, calls, srvSessions,
                 srvNext>>

\* The timer that the onclose of socket i set fires: connectWs() of the
\* effect run that created socket i, for that run's sessionId.
LegacyReconnect(i) ==
  /\ i \in timers
  /\ timers' = timers \ {i}
  /\ socks' = connectWs(socks, socks[i].sid)
  /\ wsRef' = Len(socks) + 1
  /\ UNCHANGED <<sessionId, sessions, messages, input, isLoading, progress,
                 plan, showPlan, editingSection, editInput, isEditLoading,
                 currentResponseRef, effSid, effWs, calls, srvSessions,
                 srvNext>>

\* handleWsMessage of part_001: case 'error' only appends the message, and
\* case 'section_updated' merges data.content and appends nothing.
LegacyHandleWsMessage(data) ==
  /\ messages' =
       CASE data.type = "message" ->
              AccumulateMessage(messages, currentResponseRef \o data.content, data)
         [] data.type = "conflicts" ->
              Append(messages, Msg("system", <<"Found conflicting data points">>))
         [] data.type = "plan_complete" ->
              Append(messages, Msg("system", <<"Account plan generated successfully.">>))
         [] data.type = "error" ->
              Append(messages, Msg("error", <<data.message>>))
         [] OTHER -> messages
  /\ currentResponseRef' = NextBuffer(data)
  /\ progress' = NextProgress(data)
  /\ plan' = CASE data.type = "plan_complete" -> data.plan
               [] data.type = "section_updated" ->
                    MergeSection(plan, data.section, data.content)
               [] OTHER -> plan
  /\ showPlan' = IF data.type = "plan_complete" THEN TRUE ELSE showPlan
  /\ isLoading' = IF data.type = "done" THEN FALSE ELSE isLoading
  /\ editingSection' = IF data.type = "section_updated" THEN "" ELSE editingSection
  /\ UNCHANGED <<sessionId, sessions, input, editInput, isEditLoading, wsRef,
                 effSid, effWs, calls, srvSessions, srvNext, timers>>

\* ws.onmessage of socket i in part_001.
LegacyOnMessage(i, data) ==
  /\ socks[i].state = "open"
  /\ socks[i].reqs # <<>>
  /\ data \in BackendFrames(Head(socks[i].reqs))
  /\ LegacyHandleWsMessage(data)
  /\ socks' = IF EndsRequest(data)
              THEN [socks EXCEPT ![i].reqs = Tail(@)]
              ELSE socks

LegacyBounded ==
  /\ sessionId <= LegacyMaxSessions
  /\ Len(socks) <= LegacyMaxSockets
  /\ Len(messages) <= LegacyMaxMsgs
  /\ Len(currentResponseRef) <= LegacyMaxBuf

InitLegacy ==
  /\ sessionId = generateSessionId(NoSession)
  /\ sessions = <<>>
  /\ messages = <<>>
  /\ input = <<>>
  /\ isLoading = FALSE
  /\ progress = None
  /\ plan = None
  /\ showPlan = FALSE
  /\ editingSection = ""
  /\ editInput = <<>>
  /\ isEditLoading = FALSE
  /\ wsRef = NoSocket
  /\ currentResponseRef = <<>>
  /\ effSid = NoSession
  /\ effWs = NoSocket
  /\ socks = <<>>
  /\ calls = EmptyBag
  /\ srvSessions = <<>>
  /\ srvNext = 1
  /\ timers = {}
  /\ last = None
  /\ VoiceInit

NextLegacy ==
  \/ LegacyMountEffect /\ LegacyBounded' /\ NoFrame /\ NoVoice
  \/ resetSession /\ LegacyBounded' /\ NoFrame /\ NoVoice
  \/ \E i \in 1..Len(socks) : LegacyOnClose(i) /\ LegacyBounded' /\ NoFrame /\ NoVoice
  \/ \E i \in 1..Len(socks) : LegacyReconnect(i) /\ LegacyBounded' /\ NoFrame /\ NoVoice
  \/ \E i \in 1..Len(socks) : SocketOpen(i) /\ LegacyBounded' /\ NoFrame /\ NoVoice
  \/ SetInput(<<"q">>) /\ LegacyBounded' /\ NoFrame /\ NoVoice
  \/ sendMessage /\ LegacyBounded' /\ NoFrame /\ NoVoice
  \/ \E i \in 1..Len(socks) : \E data \in SpecFrames :
       LegacyOnMessage(i, data) /\ Handled(data) /\ NoVoice /\ LegacyBounded'

SpecLegacy == InitLegacy /\ [][NextLegacy]_vars

(* ------------------------------ claims ------------------------------- *)
IsFrame(data, t) == data.type = t

\* A step in which socket i delivers a frame of type t.
Delivers(t) ==
  \E i \in 1..Len(socks) : \E data \in StreamFrames \cup EditFrames :
    IsFrame(data, t) /\ OnMessage(i, data)

Roles(msgs) == {msgs[j].role : j \in 1..Len(msgs)}
LastIndexOf(msgs, r) ==
  IF r \in Roles(msgs)
  THEN CHOOSE j \in 1..Len(msgs) :
         msgs[j].role = r /\ \A k \in (j + 1)..Len(msgs) : msgs[k].role # r
  ELSE 0

\* The assistant message of the generation the last user message started.
FinalAssistant(msgs) ==
  IF LastIndexOf(msgs, "assistant") > LastIndexOf(msgs, "user")
  THEN Some(msgs[LastIndexOf(msgs, "assistant")].content)
  ELSE None

\* C1: when `done` ends a generation whose user message is still in the
\* sequence and which received at least one delta, the content of the final
\* assistant message is the concatenation of the generation's deltas in
\* delivery order (the accumulation since sendMessage), whatever other events
\* were interleaved.
C1_FinalContentIsConcatenation ==
  [][(/\ Delivers("done")
      /\ isLoading
      /\ "user" \in Roles(messages)
      /\ currentResponseRef # <<>>)
     => FinalAssistant(messages') = Some(currentResponseRef)]_vars


LastIs(t) == last # None /\ last[1].type = t

\* C2: a frame of a socket whose session is not the active one changes none
\* of messages, document, progress, isLoading and the edit state.
C2_StaleFrameIgnored ==
  [][\A i \in 1..Len(socks) : \A data \in SpecFrames :
       (socks[i].sid # sessionId /\ OnMessage(i, data))
       => UNCHANGED <<messages, plan, progress, isLoading, editingSection,
                      editInput, isEditLoading>>]_vars

\* C3: a history or document response for a session that is not the active
\* one sets neither the message sequence nor the document.
C3_StaleResponseDiscarded ==
  [][\A c \in BagToSet(calls) : \A o \in Outcomes :
       (c.sid # sessionId /\ c.kind \in {"history", "plan"})
       => /\ \A h \in Histories(c.sid) :
               HistoryDone(c, o, h) => UNCHANGED <<messages, plan>>
          /\ PlanDone(c, o, Doc("v1")) => UNCHANGED <<messages, plan>>]_vars

EditsAwaiting(i) ==
  {j \in 1..Len(socks[i].reqs) : socks[i].reqs[j].type = "edit_section"}

\* C4: at most one edit_section frame is awaiting its section_updated or
\* error at any instant.
C4_OneEditSubmitting ==
  \A i \in 1..Len(socks) : Cardinality(EditsAwaiting(i)) <= 1

\* C5: at most one generation or edit request is outstanding at a time, and
\* the composition input is disabled while a generation or an edit is in
\* flight.
C5_SingleFlight ==
  /\ \A i \in 1..Len(socks) : Len(socks[i].reqs) <= 1
  /\ (isLoading \/ isEditLoading) => ~InputEnabled

\* C6: after a section_updated event that carries a full document, the
\* Document is exactly that document.
C6_FullPlanReplaces ==
  (LastIs("section_updated") /\ last[1].full_plan # None)
  => plan = last[1].full_plan

C6_Witness ==
  /\ LastIs("section_updated")
  /\ last[1].full_plan # None
  /\ last[1].full_plan[1]["overview"] # last[1].updated_content
  /\ last[1].section = "overview"

HasKey(p, k) == p # None /\ k \in DOMAIN p[1]

\* C7: a section_updated event without a full document sets the named
\* section to the provided content and leaves every other key of the
\* Document (the other sections and the company name) as it was.
C7_SectionMergeFrame ==
  [][\A i \in 1..Len(socks) : \A data \in EditFrames :
       (IsFrame(data, "section_updated") /\ data.full_plan = None
          /\ OnMessage(i, data))
       => /\ HasKey(plan', data.section)
          /\ plan'[1][data.section] = data.updated_content
          /\ \A k \in PlanKeys \ {data.section} :
               /\ HasKey(plan', k) <=> HasKey(plan, k)
               /\ HasKey(plan, k) => plan'[1][k] = plan[1][k]]_vars

C7_Witness ==
  /\ LastIs("section_updated")
  /\ last[1].full_plan = None
  /\ plan # None
  /\ plan[1][last[1].section] = last[1].updated_content
  /\ \E k \in DOMAIN plan[1] : plan[1][k] # last[1].updated_content

\* C8: after a done event the accumulation buffer is empty, Progress is
\* null and isLoading is false.
C8_DoneResets ==
  LastIs("done")
  => currentResponseRef = <<>> /\ progress = None /\ ~isLoading

C8_Witness ==
  /\ LastIs("done")
  /\ LastIsAssistant(messages)
  /\ currentResponseRef = <<>>
  /\ progress = None

\* C9: Progress is null in every state where isLoading is false.
C9_ProgressOnlyWhileLoading == ~isLoading => progress = None

LiveSockets == {i \in 1..Len(socks) : Live(socks[i].state)}

\* C10: at every instant the client has at most one live (connecting or
\* open) connection, because the old session's connection is closed before
\* a new one is opened.
C10_AtMostOneLive == Cardinality(LiveSockets) <= 1

\* The connection of the current run of the session effect has closed
\* although the effect's cleanup has not run: it closed unexpectedly.
ActiveDown == effWs # NoSocket /\ socks[effWs].state = "closed"
\* Some connection to the active session is connecting or open.
ActiveLive ==
  \E i \in 1..Len(socks) : socks[i].sid = sessionId /\ Live(socks[i].state)

\* C11: whenever the active session's connection closes unexpectedly, a new
\* connection to the same session is eventually opened.
C11_ReconnectAfterDrop == ActiveDown ~> ActiveLive

\* C12: a connection is only ever opened to the session that is active:
\* once the client has switched away from a session no connection to it is
\* opened again, not even by a reconnect scheduled when its socket closed.
C12_ConnectsOnlyToActive ==
  [][Len(socks') > Len(socks) => socks'[Len(socks')].sid = sessionId']_vars

\* The createNewSession call that deleteSession makes after it has deleted
\* the active session and no session remains: its closure still holds the
\* deleted session while the active session is null.
AutoCreate(c) ==
  /\ InFlight(c, "create")
  /\ c.cSid # NoSession
  /\ sessionId = NoSession

\* C13: deleting the only existing session empties the session list, and
\* the session that is then auto-created becomes the active session with an
\* empty message sequence and an absent document.
C13_DeleteOnlySession ==
  [][\A c \in BagToSet(calls) :
       (AutoCreate(c) /\ CreateSessionDone(c, "ok"))
       => /\ sessions = <<>>
          /\ sessionId' # NoSession
          /\ messages' = <<>>
          /\ plan' = None]_vars

\* The content that a section_updated frame carries for its section.
SectionContent(data) ==
  IF data.full_plan # None
  THEN data.full_plan[1][data.section]
  ELSE data.updated_content

\* C14: submitting an edit puts the transaction in submitting (isEditLoading
\* with the section still being edited); a section_updated frame then sets
\* that section of the Document, leaves no edit submitting and no section
\* being edited, and appends exactly one message, a system message.
C14_EditApplied ==
  [][/\ submitEdit => (isEditLoading' /\ editingSection' = editingSection)
     /\ \A i \in 1..Len(socks) : \A data \in EditFrames :
          (IsFrame(data, "section_updated") /\ OnMessage(i, data))
          => /\ HasKey(plan', data.section)
             /\ plan'[1][data.section] = SectionContent(data)
             /\ ~isEditLoading'
             /\ editingSection' = ""
             /\ Len(messages') = Len(messages) + 1
             /\ SubSeq(messages', 1, Len(messages)) = messages
             /\ messages'[Len(messages')].role = "system"]_vars

C14_Witness ==
  /\ LastIs("section_updated")
  /\ last[1].section = "leadership"
  /\ HasKey(plan, "leadership")
  /\ plan[1]["leadership"] = SectionContent(last[1])
  /\ ~isEditLoading
  /\ editingSection = ""
  /\ messages # <<>>
  /\ messages[Len(messages)] = SectionUpdatedMessage(last[1])

NoDuplicates(seq) == \A j, k \in 1..Len(seq) : seq[j] = seq[k] => j = k

\* C15: within one listening session (one recognition instance) no
\* finalized transcript is appended to the composition input twice,
\* whatever the sequence of result callbacks.
C15_NoDoubleCommit ==
  \A i \in 1..Len(recs) : NoDuplicates(recs[i].commits)

CapturingInstances == {i \in 1..Len(recs) : Capturing(recs[i].state)}

\* C16: at most one voice capture instance exists at a time; a toggle while
\* a capture is started or running creates no second instance.
C16_OneCaptureInstance == Cardinality(CapturingInstances) <= 1

\* C17: the Document is either absent or holds every one of the named
\* sections.
C17_DocumentWhole == plan = None \/ Sections \subseteq DOMAIN plan[1]

\* C18: a stream event removes no message, and the only element of the
\* message sequence it can change is the last one, and only if its role is
\* assistant: every other element stays as it was appended.
C18_OnlyLastAssistantMutated ==
  [][\A i \in 1..Len(socks) : \A data \in StreamFrames :
       OnMessage(i, data)
       => /\ Len(messages') >= Len(messages)
          /\ \A j \in 1..Len(messages) :
               messages'[j] # messages[j]
               => /\ j = Len(messages)
                  /\ messages[j].role = "assistant"
                  /\ messages'[j].role = "assistant"]_vars

C18_Witness ==
  /\ LastIs("message")
  /\ Len(messages) >= 2
  /\ messages[1].role = "user"
  /\ messages[Len(messages)].role = "assistant"
  /\ Len(messages[Len(messages)].content) >= 2
  /\ messages[Len(messages)].content = currentResponseRef

\* A user action on the conversation or on the sessions, with the
\* continuations of the calls it makes.
UserAction ==
  \/ sendMessage
  \/ submitEdit
  \/ ClickNewSession
  \/ \E s \in SessionIds : deleteSession(s)
  \/ \E c \in BagToSet(calls), o \in Outcomes :
       CreateSessionDone(c, o) \/ DeleteSessionDone(c, o)

\* C19: no user action (sending a message, submitting an edit, creating or
\* deleting a session) changes the Document or the message sequence; only
\* the reducer of inbound stream events does.
C19_OnlyReducerWrites == [][UserAction => UNCHANGED <<messages, plan>>]_vars

\* A resource call completes with a failure: a response that is not ok, or
\* a rejected fetch.
FailedCall ==
  \E c \in BagToSet(calls), o \in Outcomes \ {"ok"} :
    \/ FetchSessionsDone(c, o)
    \/ CreateSessionDone(c, o)
    \/ DeleteSessionDone(c, o)
    \/ \E h \in Histories(c.sid) : HistoryDone(c, o, h)
    \/ PlanDone(c, o, Doc("v1"))

\* C20: a failed list, create, delete, history or document call leaves the
\* session list, the active session, the messages and the Document as they
\* were, and raises no error (no message, no loading state).
C20_FailedCallChangesNothing ==
  [][FailedCall => UNCHANGED <<sessions, sessionId, messages, plan, isLoading,
                               progress>>]_vars

\* The list call of the mount effect has failed: the backend has a session,
\* the client has none and no call is in flight.
C20_Witness ==
  /\ srvSessions # <<>>
  /\ sessions = <<>>
  /\ sessionId = NoSession
  /\ calls = EmptyBag
  /\ messages = <<>>
  /\ plan = None

\* A run of the session effect for a session: a switch to that session.
SwitchTo ==
  /\ sessionId' # NoSession
  /\ SessionEffect \/ \E s \in SessionIds : ClickSession(s)

\* C21: on every switch to a session, before any data of that session is
\* applied, isLoading is false, Progress is null, the Document is null and
\* the plan is not visible.
C21_SwitchResets ==
  [][SwitchTo => (/\ ~isLoading'
                  /\ progress' = None
                  /\ plan' = None
                  /\ ~showPlan')]_vars


\* The step hands an error frame to the reducer.
ErrorHandled == last' # None /\ last'[1].type = "error"

\* C22: an error event appends one error-role message carrying the provided
\* text, sets isLoading false and leaves no edit submitting and no section
\* being edited.
C22_ErrorResolves ==
  [][ErrorHandled
     => /\ messages' = Append(messages, Msg("error", <<last'[1].message>>))
        /\ ~isLoading'
        /\ ~isEditLoading'
        /\ editingSection' = ""]_vars


\* The step hands a done frame to the reducer.
DoneHandled == last' # None /\ last'[1].type = "done"

\* C23: the accumulation buffer is empty right after every sendMessage and
\* right after every done event, and no other step (an error event, a
\* session switch, any other event or call) takes it from non-empty to
\* empty.
C23_BufferResets ==
  [][/\ (sendMessage \/ DoneHandled) => currentResponseRef' = <<>>
     /\ (currentResponseRef # <<>> /\ currentResponseRef' = <<>>)
        => (sendMessage \/ DoneHandled)]_vars

C23_Witness ==
  /\ LastIs("done")
  /\ messages = <<Msg("user", <<"q">>), Msg("assistant", <<"a">>)>>
  /\ currentResponseRef = <<>>


\* C24: a successful deletion removes the session from the list; if the
\* deleted session is the active one and others remain, the first remaining
\* session becomes active; if it is not the active one, the active session,
\* the messages and the Document stay as they were.
C24_DeleteSelectsNext ==
  [][\A c \in BagToSet(calls) :
       DeleteSessionDone(c, "ok")
       => /\ sessions' = Filter(sessions, c.sid)
          /\ (c.sid = sessionId /\ Filter(sessions, c.sid) # <<>>)
             => sessionId' = Filter(sessions, c.sid)[1]
          /\ c.sid # sessionId => UNCHANGED <<sessionId, messages, plan>>]_vars


\* The step hands the section_updated frame data to the reducer.
SectionUpdatedStep(data) ==
  /\ IsFrame(data, "section_updated")
  /\ \E i \in 1..Len(socks) : OnMessage(i, data) \/ OnRedelivery(i, data)

\* C25: a section_updated event received while no edit is submitting still
\* sets the section of the Document and still appends one confirmation
\* system message; when it repeats the event just handled, the Document
\* stays identical and the message sequence grows by that one message.
C25_RedeliveryApplies ==
  [][\A data \in EditFrames :
       (~isEditLoading /\ SectionUpdatedStep(data))
       => /\ plan' = SectionUpdatedPlan(plan, data)
          /\ HasKey(plan', data.section)
          /\ plan'[1][data.section] = SectionContent(data)
          /\ messages' = Append(messages, SectionUpdatedMessage(data))
          /\ last = Some(data) => plan' = plan]_vars

\* The same section_updated frame has been handled twice in a row.
C25_Witness ==
  /\ LastIs("section_updated")
  /\ ~isEditLoading
  /\ Len(messages) >= 2
  /\ messages[Len(messages)] = SectionUpdatedMessage(last[1])
  /\ messages[Len(messages) - 1] = SectionUpdatedMessage(last[1])
  /\ last[1].full_plan = None
  /\ plan # None
  /\ plan[1][last[1].section] = last[1].updated_content
  /\ \E k \in DOMAIN plan[1] : plan[1][k] # last[1].updated_content


\* C26: a plan_complete event sets the Document to the document it carries,
\* makes the plan visible, appends exactly one message, a system message,
\* and starts a refresh of the session list.
C26_PlanCompleteApplies ==
  [][\A i \in 1..Len(socks) : \A data \in StreamFrames :
       (IsFrame(data, "plan_complete") /\ OnMessage(i, data))
       => /\ plan' = data.plan
          /\ showPlan'
          /\ Len(messages') = Len(messages) + 1
          /\ SubSeq(messages', 1, Len(messages)) = messages
          /\ messages'[Len(messages')].role = "system"
          /\ calls' = Spawn(calls, Call("list", NoSession, NoSession, <<>>))]_vars

C26_Witness ==
  /\ LastIs("plan_complete")
  /\ plan = last[1].plan
  /\ showPlan
  /\ Len(messages) >= 2
  /\ messages[Len(messages)].role = "system"
  /\ \E c \in BagToSet(calls) : c.kind = "list"


\* C27: a status event sets Progress to the pair (percent, message) of the
\* event and changes none of messages, Document, accumulation buffer, edit
\* state and loading state; a done event makes Progress null.
C27_StatusSetsProgress ==
  [][/\ \A i \in 1..Len(socks) : \A data \in StreamFrames :
          (IsFrame(data, "status") /\ OnMessage(i, data))
          => /\ progress' = Some([percent |-> data.progress,
                                  message |-> data.message])
             /\ UNCHANGED <<messages, plan, showPlan, currentResponseRef,
                            editingSection, editInput, isEditLoading,
                            isLoading, calls>>
     /\ DoneHandled => progress' = None]_vars

C27_Witness ==
  /\ LastIs("status")
  /\ progress = Some([percent |-> 80, message |-> "Searching news"])
  /\ LastIsAssistant(messages)
  /\ currentResponseRef # <<>>
  /\ isLoading


\* The text has no character other than white space.
Blank(s) == \A j \in 1..Len(s) : s[j] = " "

\* The step sends an edit_section frame that reaches the backend on socket i.
EmitsEdit(i) ==
  /\ Len(socks'[i].reqs) > Len(socks[i].reqs)
  /\ socks'[i].reqs[Len(socks'[i].reqs)].type = "edit_section"

\* C28: submitEdit enters submitting and emits an edit_section frame only
\* when the instruction is non-empty after trimming, and the frame carries
\* the section being edited and the instruction; with an empty instruction
\* no step enters submitting and no edit_section frame is sent.
C28_SubmitNeedsInstruction ==
  [][/\ submitEdit
        => /\ ~Blank(editInput)
           /\ isEditLoading'
           /\ editingSection' = editingSection
     /\ (~isEditLoading /\ isEditLoading') => ~Blank(editInput)
     /\ \A i \in 1..Len(socks) :
          EmitsEdit(i)
          => /\ ~Blank(editInput)
             /\ socks'[i].reqs[Len(socks'[i].reqs)] =
                  Req("edit_section", editingSection, editInput)]_vars

C28_Witness ==
  /\ isEditLoading
  /\ editingSection = "leadership"
  /\ editInput = <<>>
  /\ wsRef # NoSocket
  /\ socks[wsRef].reqs = <<Req("edit_section", "leadership", <<"q">>)>>


\* Starting a capture fails: recognition.start() throws, or the instance
\* reports an error (not-allowed, audio-capture) before its start event.
StartFails ==
  \/ ~isListening /\ toggleListening(TRUE)
  \/ \E i \in 1..Len(recs) : ~recs[i].started /\ onerror(i)

\* C29: when starting a voice capture fails, isListening is false and the
\* reference to the recognition instance is null afterwards, and the
\* composition input is as it was.
C29_StartFailureIdle ==
  [][StartFails => (/\ ~isListening'
                    /\ recognitionRef' = NoRecognition
                    /\ input' = input)]_vars

C29_Witness ==
  /\ \E i \in 1..Len(recs) : recs[i].state = "failed" /\ ~recs[i].started
  /\ \A i \in 1..Len(recs) : ~Capturing(recs[i].state)
  /\ ~isListening
  /\ recognitionRef = NoRecognition
  /\ input = <<"q">>


\* C30: with a backend that ends every request it receives, every generation
\* or edit that was started eventually completes: isLoading and
\* isEditLoading are false again, also when the connection drops while the
\* request is in flight or the frame is sent on a connection that is not
\* open.
C30_RequestCompletes ==
  (isLoading \/ isEditLoading) ~> (~isLoading /\ ~isEditLoading)


\* A refresh of the session list answers while a session is active.  In
\* SpecRefresh the list call of the mount effect is the one that makes a
\* session active, so such a refresh was started by a stream event.
RefreshAnswers ==
  /\ sessionId # NoSession
  /\ \E c \in BagToSet(calls), o \in Outcomes : FetchSessionsDone(c, o)

\* C31: neither the handling of a stream event nor the refresh of the
\* session list that plan_complete or a "Starting research on" delta
\* starts changes the active session, whatever the order of the list.
C31_RefreshKeepsSession ==
  [][(last' # None \/ RefreshAnswers) => sessionId' = sessionId]_vars


\* C32: when the delete request for a session has succeeded the active
\* session is not that session, also when the user switched the active
\* session between the click on delete and the response.
C32_DeletedNotActive ==
  [][\A c \in BagToSet(calls) :
       DeleteSessionDone(c, "ok") => sessionId' # c.sid]_vars


\* C33: after a session switch no edit transaction of the previous session
\* is left: isEditLoading is false, no section is being edited and the
\* edit instruction is empty.
C33_SwitchEndsEdit ==
  [][SwitchTo => (/\ ~isEditLoading'
                  /\ editingSection' = ""
                  /\ editInput' = <<>>)]_vars


\* Message m is of the stored history of session s.
OfSession(m, s) == m.content = <<ToString(s)>>

\* C34: when the history fetch of the active session completes, with
\* success or not, the message sequence holds no message of another
\* session.
C34_NoMessageOfOldSession ==
  [][\A c \in BagToSet(calls) : \A o \in Outcomes : \A h \in Histories(c.sid) :
       (c.sid = sessionId /\ HistoryDone(c, o, h))
       => \A j \in 1..Len(messages') : \A a \in SessionIds \ {sessionId} :
            ~OfSession(messages'[j], a)]_vars


\* C35: while the active session stays the same, no step removes a message:
\* the sequence does not get shorter and every user message stays at its
\* place, also when the history response of the switch arrives after
\* messages were appended.
C35_AppendedNeverRemoved ==
  [][(sessionId # NoSession /\ sessionId' = sessionId)
     => /\ Len(messages') >= Len(messages)
        /\ \A j \in 1..Len(messages) :
             messages[j].role = "user" => messages'[j] = messages[j]]_vars


\* C36: a message delta is written only into the assistant message of the
\* stream in progress, the one that holds the accumulation so far: an
\* assistant message of a generation that has ended (after done the
\* accumulation is empty) or that came with the history keeps its content.
C36_EndedMessageFrozen ==
  [][\A i \in 1..Len(socks) : \A data \in StreamFrames :
       (IsFrame(data, "message") /\ OnMessage(i, data))
       => \A j \in 1..Len(messages) :
            (messages[j].role = "assistant"
               /\ messages[j].content # currentResponseRef)
            => messages'[j] = messages[j]]_vars


\* C37: every outbound frame is sent on the connection of the active
\* session: when sendMessage or submitEdit runs, wsRef.current is a socket
\* of the active session.
C37_SendsOnActiveConnection ==
  [][(sendMessage \/ submitEdit) => socks[wsRef].sid = sessionId]_vars


\* C38: sendMessage and submitEdit change state only when the frame can be
\* sent: when the connection is not open they leave the messages, the
\* loading flags and the two inputs as they were.
C38_NoChangeUnlessOpen ==
  [][((sendMessage \/ submitEdit) /\ socks[wsRef].state # "open")
     => UNCHANGED <<messages, isLoading, isEditLoading, input, editInput>>]_vars


\* The startup sequence has ended: one session exists on the backend, it is
\* the active session and no create call is in flight.
StartupDone ==
  /\ srvSessions = <<1>>
  /\ sessionId = 1
  /\ \A c \in BagToSet(calls) : c.kind # "create"

\* C39: starting with an empty session list and a backend that lists every
\* session it has created, the startup sequence of fetchSessions and
\* createNewSession creates exactly one session and ends with that session
\* active: from some point on the backend holds that one session for good
\* (sessions are never deleted here), it is active and no create call is
\* in flight.
C39_StartupCreatesOne == <>[]StartupDone

C39_Witness ==
  /\ StartupDone
  /\ sessions = <<1>>
  /\ effSid = 1
  /\ calls = EmptyBag


\* C40: while an edit transaction is submitting its section key does not
\* change: as long as an edit_section frame awaits its answer and
\* isEditLoading is true, the section being edited (the one shown as
\* updating) is the section named in that frame.
C40_SubmittingSectionFixed ==
  \A i \in 1..Len(socks) : \A j \in EditsAwaiting(i) :
    isEditLoading => editingSection = socks[i].reqs[j].section

====
